---- MODULE Spec2Model ----
(***************************************************************************)
(* Qubit-Quests: the VQE engine (backend/engine.py), the FastAPI layer     *)
(* with the dissociation scan, its progress queue and its last-result slot *)
(* (backend/app.py), and the stand-alone minimum search (qbit.py).         *)
(*                                                                         *)
(* Units: bond lengths are integers in 1e-5 Angstrom, energies are         *)
(* integers in milli-Hartree, a progress value is the exact fraction       *)
(* <<num, den>> of the float the code computes.                            *)
(*                                                                         *)
(* Spec is the whole program. Its parts share no state beyond what each    *)
(* names, and are explored apart: SpecScan (scan threads, result slot and  *)
(* its endpoint), SpecStream (scan threads and the subscribers of the      *)
(* progress queue), SpecVqe (POST /api/run-vqe), SpecMin (qbit.py).        *)
(***************************************************************************)
EXTENDS Integers, Sequences, FiniteSets, TLC

\* ------------------------------------------------------------------ bounds

\* scans started over a run (POST /api/dissociation-curve requests)
MaxScans == 2
\* SSE connections opened over a run (GET /stream requests)
NumSubscribers == 2
\* longest distance_range handed to compute_min_ground_state_energy
MaxRange == 3

Scans == 1..MaxScans
Subscribers == 1..NumSubscribers

\* --------------------------------------------------------- engine.py inputs

\* molecule identifiers a request may carry: the two engine.py supports, and one it does not
Molecules == {"H2", "LiH", "XeF2"}
BackendNames == {"simulator", "ibm_brisbane"}
Bases == {"sto3g", "STO3G"}
\* the molecules of the scans whose progress is followed: one engine.py supports, one it does not
StreamMolecules == {"H2", "XeF2"}
\* what the external collaborators do in one call: the environment holds the IBM token
\* or not, the provider connects or not, PySCF accepts the geometry/basis or not, the
\* VQE/eigen solvers finish or not
Envs == [token : BOOLEAN, provider_ok : BOOLEAN, driver_ok : BOOLEAN, solver_ok : BOOLEAN]
\* the environment of a scan point: the simulator needs no token and no provider
SimEnvs == {e \in Envs : ~e.token /\ ~e.provider_ok}

NoError == "none"
CredentialMissing == "ConnectionError: IBM_QUANTUM_TOKEN environment variable not set"
ConnectionFailed == "ConnectionError: Failed to get backend"
UnsupportedMolecule == "ValueError: Unsupported molecule."
DriverError == "PySCFDriver error"
SolverError == "eigensolver error"

\* the steps of run_vqe_calculation that build the problem
BuildSteps == {"format_geometry", "active_space", "driver_run", "transform", "map"}

\* str.lower() on the basis names of Bases
lower(basis) == IF basis = "STO3G" THEN "sto3g" ELSE basis

\* get_backend with the token test dropped: every cloud name goes to the provider
get_backend_no_token_check(backend_name, env) ==
    IF backend_name = "simulator"
    THEN [ok |-> TRUE, error |-> NoError, backend |-> "AerSimulator"]
    ELSE IF env.provider_ok
         THEN [ok |-> TRUE, error |-> NoError, backend |-> backend_name]
         ELSE [ok |-> FALSE, error |-> ConnectionFailed, backend |-> "none"]

\* engine.py get_backend: "simulator" needs nothing; any other name needs the token,
\* then the provider
get_backend(backend_name, env) ==
    IF backend_name = "simulator"
    THEN [ok |-> TRUE, error |-> NoError, backend |-> "AerSimulator"]
    ELSE IF ~env.token
         THEN [ok |-> FALSE, error |-> CredentialMissing, backend |-> "none"]
         ELSE IF env.provider_ok
              THEN [ok |-> TRUE, error |-> NoError, backend |-> backend_name]
              ELSE [ok |-> FALSE, error |-> ConnectionFailed, backend |-> "none"]

\* the molecule branch with the final else falling through to the H2 geometry
molecule_setup_no_else(molecule_name, bond_length) ==
    IF molecule_name = "LiH"
    THEN [ok |-> TRUE, atom_string |-> <<"Li", 0, "H", bond_length>>,
          num_electrons |-> 2, num_spatial_orbitals |-> 5]
    ELSE [ok |-> TRUE, atom_string |-> <<"H", 0, "H", bond_length>>,
          num_electrons |-> 2, num_spatial_orbitals |-> 2]

\* engine.py lines 66-76: the geometry string and the active space of a molecule
molecule_setup(molecule_name, bond_length) ==
    IF molecule_name = "H2"
    THEN [ok |-> TRUE, atom_string |-> <<"H", 0, "H", bond_length>>,
          num_electrons |-> 2, num_spatial_orbitals |-> 2]
    ELSE IF molecule_name = "LiH"
         THEN [ok |-> TRUE, atom_string |-> <<"Li", 0, "H", bond_length>>,
               num_electrons |-> 2, num_spatial_orbitals |-> 5]
         ELSE [ok |-> FALSE, atom_string |-> <<>>,
               num_electrons |-> 0, num_spatial_orbitals |-> 0]

\* the exact total energy the classical solver finds for a geometry (a stand-in for
\* NumPyMinimumEigensolver + nuclear repulsion): a well with its minimum near 0.75 A
\* (H2) or 1.6 A (LiH)
total_exact_energy(atom_string) ==
    LET r == atom_string[4] \div 5000
        r0 == IF atom_string[1] = "Li" THEN 32 ELSE 15
        depth == IF atom_string[1] = "Li" THEN 7880 ELSE 1137
    IN  (r - r0) * (r - r0) - depth

\* the VQE total energy: variational, so never below the exact one
total_vqe_energy(atom_string) ==
    total_exact_energy(atom_string) + (IF atom_string[1] = "Li" THEN 2 ELSE 1)

abs(x) == IF x < 0 THEN -x ELSE x

Failure(error, trace) ==
    [ok |-> FALSE, error |-> error, trace |-> trace, basis |-> "none",
     energy |-> 0, exact_energy |-> 0, error_mHa |-> 0, qubits |-> 0]

\* engine.py run_vqe_calculation: the steps in the order the code takes them; trace is
\* the sequence of steps entered before the return or the raise (the except clause
\* logs and re-raises the same error)
run_vqe_calculation(molecule_name, bond_length, basis, backend_name, env) ==
    LET b == get_backend(backend_name, env)
        m == molecule_setup(molecule_name, bond_length)
        t1 == <<"get_backend">>
        t2 == t1 \o <<"format_geometry", "active_space">>
        t3 == t2 \o <<"driver_run">>
        t4 == t3 \o <<"transform", "map", "ansatz", "estimator", "exact_solve", "vqe_solve">>
    IN  IF ~b.ok THEN Failure(b.error, t1)
        ELSE IF ~m.ok THEN Failure(UnsupportedMolecule, t1)
        ELSE IF ~env.driver_ok THEN Failure(DriverError, t3)
        ELSE IF ~env.solver_ok THEN Failure(SolverError, t4)
        ELSE [ok |-> TRUE, error |-> NoError, trace |-> t4, basis |-> lower(basis),
              energy |-> total_vqe_energy(m.atom_string),
              exact_energy |-> total_exact_energy(m.atom_string),
              error_mHa |-> abs(total_vqe_energy(m.atom_string)
                                  - total_exact_energy(m.atom_string)) * 1000,
              qubits |-> 2 * m.num_spatial_orbitals]

\* ------------------------------------------------------------------- app.py

\* np.linspace(0.4, 2.5, 15): 15 points, first 0.4, last 2.5
total_points == 15
linspace_start == 40000
linspace_stop == 250000
bond_lengths ==
    [i \in 0..(total_points - 1) |->
        linspace_start + (i * (linspace_stop - linspace_start)) \div (total_points - 1)]

\* round(length, 4): to the nearest 1e-4, in units of 1e-5
round4(x) == ((x + 5) \div 10) * 10

\* the progress value with the loop index used as it is (i instead of i + 1)
progress_from_index(i) == <<i * 100, total_points>>

\* app.py line 93: ((i + 1) / total_points) * 100, as an exact fraction
progress(i) == <<(i + 1) * 100, total_points>>

FracLess(a, b) == a[1] * b[2] < b[1] * a[2]
FracIs(a, n) == a[1] = n * a[2]

\* what travels through progress_queue: {"progress": value} or the sentinel None; producer
\* names the scan that put it
Update(t, value) == [producer |-> t, kind |-> "progress", value |-> value]
Sentinel(t) == [producer |-> t, kind |-> "None", value |-> <<0, 1>>]
NoItem == [producer |-> 0, kind |-> "none", value |-> <<0, 1>>]

EmptyCurve == [curve_data |-> <<>>]

VARIABLES
    scan,                 \* per scan thread: pc, molecule, basis, i, curve_data
    progress_queue,       \* asyncio.Queue: its items, oldest first
    getters,              \* asyncio.Queue: the subscribers suspended in get(), oldest first
    stream,               \* per SSE connection: pc, progress_data, and the scans aborted when it opened
    dissociation_result,  \* app.state.dissociation_result: set or not, and its value
    response,             \* the last body GET /api/dissociation-results returned
    vqe,                  \* POST /api/run-vqe: the request and what run_vqe_calculation gave
    qb                    \* qbit.py compute_min_ground_state_energy: its locals

vars == <<scan, progress_queue, getters, stream, dissociation_result, response, vqe, qb>>

IdleScan == [pc |-> "idle", molecule |-> "none", basis |-> "none", i |-> 0, curve_data |-> <<>>]
IdleStream == [pc |-> "idle", progress_data |-> NoItem, stale |-> {}]
NoResponse == [served |-> FALSE, body |-> EmptyCurve, stores |-> 0, partial |-> FALSE]
IdleVqe == [pc |-> "idle", molecule |-> "none", bondLength |-> 0, basis |-> "none",
            backend |-> "none", env |-> [token |-> FALSE, provider_ok |-> FALSE,
                                         driver_ok |-> FALSE, solver_ok |-> FALSE],
            result |-> Failure(NoError, <<>>)]
\* float('inf') and None, as values that compare with the numbers
Inf == [inf |-> TRUE, v |-> 0]
Num(x) == [inf |-> FALSE, v |-> x]
None == [some |-> FALSE, v |-> 0]
Some(x) == [some |-> TRUE, v |-> x]
IdleQb == [pc |-> "idle", molecule |-> "none", distance_range |-> <<>>, k |-> 0,
           min_energy |-> Inf, optimal_distance |-> None,
           evaluated |-> <<>>, energies |-> <<>>]

Running(t) == scan[t].pc \in {"loop", "store"}
\* the scans that have stored their result
Stored == {t \in Scans : scan[t].pc = "done"}

\* progress_queue.put(item) on the unbounded queue: put_nowait, then _wakeup_next: the
\* oldest suspended getter is resumed and tests the queue again
put(item) ==
    /\ progress_queue' = Append(progress_queue, item)
    /\ IF getters # <<>>
       THEN /\ getters' = Tail(getters)
            /\ stream' = [stream EXCEPT ![Head(getters)].pc = "get"]
       ELSE UNCHANGED <<getters, stream>>

\* POST /api/dissociation-curve: hands dissociation_calculation_thread to the executor.
\* Scans are numbered in the order they start, and a scan is started when the ones
\* before it have ended: requests that overlap a running scan are left out
dissociation_endpoint(t, molecule, basis) ==
    /\ scan[t].pc = "idle"
    /\ \A u \in Scans : u < t => scan[u].pc \in {"done", "aborted"}
    /\ scan' = [scan EXCEPT ![t] = [pc |-> "loop", molecule |-> molecule, basis |-> basis,
                                    i |-> 0, curve_data |-> <<>>]]
    /\ UNCHANGED <<progress_queue, getters, stream, dissociation_result, response, vqe, qb>>

\* one pass of the loop with the result slot assigned inside it (the curve so far is visible)
scan_point_publishing(t) ==
    /\ scan[t].pc = "loop"
    /\ scan[t].i < total_points
    /\ \E env \in SimEnvs :
         LET i == scan[t].i
             length == bond_lengths[i]
             result == run_vqe_calculation(scan[t].molecule, round4(length),
                                           scan[t].basis, "simulator", env)
             curve == Append(scan[t].curve_data,
                             [bond_length |-> length, energy |-> result.energy])
         IN  IF result.ok
             THEN /\ scan' = [scan EXCEPT ![t].curve_data = curve, ![t].i = i + 1]
                  /\ put(Update(t, progress(i)))
                  /\ dissociation_result' = [set |-> TRUE, value |-> [curve_data |-> curve]]
             ELSE /\ scan' = [scan EXCEPT ![t].pc = "aborted", ![t].i = 0, ![t].curve_data = <<>>]
                  /\ UNCHANGED <<progress_queue, getters, stream, dissociation_result>>
    /\ UNCHANGED <<response, vqe, qb>>

\* dissociation_calculation_thread, lines 87-94: one pass of the loop. The energy of
\* point i is computed; on success the point joins curve_data and the progress update
\* is put; an exception of run_vqe_calculation is caught nowhere and ends the thread
scan_point(t) ==
    /\ scan[t].pc = "loop"
    /\ scan[t].i < total_points
    /\ \E env \in SimEnvs :
         LET i == scan[t].i
             length == bond_lengths[i]
             result == run_vqe_calculation(scan[t].molecule, round4(length),
                                           scan[t].basis, "simulator", env)
         IN  IF result.ok
             THEN /\ scan' = [scan EXCEPT
                                ![t].curve_data = Append(@, [bond_length |-> length,
                                                             energy |-> result.energy]),
                                ![t].i = i + 1]
                  /\ put(Update(t, progress(i)))
             ELSE /\ scan' = [scan EXCEPT ![t].pc = "aborted", ![t].i = 0, ![t].curve_data = <<>>]
                  /\ UNCHANGED <<progress_queue, getters, stream>>
    /\ UNCHANGED <<dissociation_result, response, vqe, qb>>

\* line 97: the loop is over, the sentinel None is put
scan_sentinel(t) ==
    /\ scan[t].pc = "loop"
    /\ scan[t].i = total_points
    /\ scan' = [scan EXCEPT ![t].pc = "store"]
    /\ put(Sentinel(t))
    /\ UNCHANGED <<dissociation_result, response, vqe, qb>>

\* line 98: app.state.dissociation_result = {"curve_data": curve_data}; the thread ends
scan_store(t) ==
    /\ scan[t].pc = "store"
    /\ dissociation_result' = [set |-> TRUE, value |-> [curve_data |-> scan[t].curve_data]]
    /\ scan' = [scan EXCEPT ![t].pc = "done"]
    /\ UNCHANGED <<progress_queue, getters, stream, response, vqe, qb>>

\* GET /stream: a new progress_streamer generator over the one module-level queue
stream_endpoint(s) ==
    /\ stream[s].pc = "idle"
    /\ stream' = [stream EXCEPT ![s] = [pc |-> "get", progress_data |-> NoItem,
                                        stale |-> {t \in Scans : scan[t].pc = "aborted"}]]
    /\ UNCHANGED <<scan, progress_queue, getters, dissociation_result, response, vqe, qb>>

\* progress_streamer, lines 69-72, the queue not empty: get returns the oldest item; None
\* ends the stream, anything else is yielded and the loop goes on
streamer_get(s) ==
    /\ stream[s].pc = "get"
    /\ progress_queue # <<>>
    /\ stream' = [stream EXCEPT ![s].progress_data = Head(progress_queue),
                                ![s].pc = IF Head(progress_queue).kind = "None"
                                          THEN "done" ELSE "get"]
    /\ progress_queue' = Tail(progress_queue)
    /\ UNCHANGED <<scan, getters, dissociation_result, response, vqe, qb>>

\* Queue.get, the queue seen empty: the scan thread may put before the getter is
\* registered (the queue is shared between the loop's thread and the scan's thread
\* without a lock)
streamer_sees_empty(s) ==
    /\ stream[s].pc = "get"
    /\ progress_queue = <<>>
    /\ stream' = [stream EXCEPT ![s].pc = "empty_seen"]
    /\ UNCHANGED <<scan, progress_queue, getters, dissociation_result, response, vqe, qb>>

\* Queue.get: the getter is registered and the coroutine suspends until a put resumes it
streamer_wait(s) ==
    /\ stream[s].pc = "empty_seen"
    /\ getters' = Append(getters, s)
    /\ stream' = [stream EXCEPT ![s].pc = "await"]
    /\ UNCHANGED <<scan, progress_queue, dissociation_result, response, vqe, qb>>

\* lines 73-74: the client goes away, the suspended get is cancelled and the loop breaks
streamer_cancelled(s) ==
    /\ stream[s].pc = "await"
    /\ getters' = SelectSeq(getters, LAMBDA x : x # s)
    /\ stream' = [stream EXCEPT ![s].pc = "cancelled"]
    /\ UNCHANGED <<scan, progress_queue, dissociation_result, response, vqe, qb>>

\* the endpoint answering with the slot and emptying it
get_dissociation_results_popping ==
    /\ response' = [served |-> TRUE,
                    body |-> IF dissociation_result.set THEN dissociation_result.value
                             ELSE EmptyCurve,
                    stores |-> Cardinality(Stored),
                    partial |-> \E t \in Scans : Running(t) /\ scan[t].curve_data # <<>>]
    /\ dissociation_result' = [set |-> FALSE, value |-> EmptyCurve]
    /\ UNCHANGED <<scan, progress_queue, getters, stream, vqe, qb>>

\* GET /api/dissociation-results: getattr(app.state, "dissociation_result",
\* {"curve_data": []}). The response also notes how many scans had stored when it
\* answered, and whether a scan was then running with points already computed
get_dissociation_results ==
    /\ response' = [served |-> TRUE,
                    body |-> IF dissociation_result.set THEN dissociation_result.value
                             ELSE EmptyCurve,
                    stores |-> Cardinality(Stored),
                    partial |-> \E t \in Scans : Running(t) /\ scan[t].curve_data # <<>>]
    /\ UNCHANGED <<scan, progress_queue, getters, stream, dissociation_result, vqe, qb>>

\* bond lengths a /api/run-vqe request may carry
VqeBondLengths == {74000, 160000}

\* POST /api/run-vqe: run_vqe_calculation on the request's fields; its result is the
\* response, its exception becomes an HTTP 500
vqe_endpoint(molecule, bondLength, basis, backend, env) ==
    /\ vqe' = [pc |-> "done", molecule |-> molecule, bondLength |-> bondLength,
               basis |-> basis, backend |-> backend, env |-> env,
               result |-> run_vqe_calculation(molecule, bondLength, basis, backend, env)]
    /\ UNCHANGED <<scan, progress_queue, getters, stream, dissociation_result, response, qb>>

\* ------------------------------------------------------------------ qbit.py

QbMolecules == {"H2", "LiH", "HF", "H2O", "XeF2"}
QbDistances == {50000, 70000, 90000}
\* total energies the solver may return
QbEnergies == {-1137, -1100, -1000}
RECURSIVE SeqsUpTo(_, _)
SeqsUpTo(S, n) ==
    IF n = 0 THEN {<<>>}
    ELSE LET shorter == SeqsUpTo(S, n - 1)
         IN  shorter \cup {Append(q, x) : q \in shorter, x \in S}
QbRanges == SeqsUpTo(QbDistances, MaxRange)

\* lines 19-28: the geometry of a molecule, or ValueError
atom_str(molecule, bond_distance) ==
    IF molecule = "H2" THEN [ok |-> TRUE, atoms |-> <<"H", 0, "H", bond_distance>>]
    ELSE IF molecule = "LiH" THEN [ok |-> TRUE, atoms |-> <<"Li", 0, "H", bond_distance>>]
    ELSE IF molecule = "HF" THEN [ok |-> TRUE, atoms |-> <<"H", 0, "F", bond_distance>>]
    ELSE IF molecule = "H2O" THEN [ok |-> TRUE, atoms |-> <<"O", 0, "H", bond_distance>>]
    ELSE [ok |-> FALSE, atoms |-> <<>>]

\* the comparison written with <= : a later distance with the same energy takes over
improves_or_ties(energy, min_energy) == min_energy.inf \/ energy <= min_energy.v

\* line 66: energy < min_energy, min_energy starting at float('inf')
improves(energy, min_energy) == min_energy.inf \/ energy < min_energy.v

\* compute_min_ground_state_energy is called: lines 11-13
qb_call(molecule, distance_range) ==
    /\ qb.pc \in {"idle", "returned", "raised"}
    /\ qb' = [pc |-> "loop", molecule |-> molecule, distance_range |-> distance_range,
              k |-> 0, min_energy |-> Inf, optimal_distance |-> None,
              evaluated |-> <<>>, energies |-> <<>>]
    /\ UNCHANGED <<scan, progress_queue, getters, stream, dissociation_result, response, vqe>>

\* lines 15-69: one pass of the loop over distance_range; the unsupported molecule and a
\* failing solver raise out of the function
qb_iteration ==
    /\ qb.pc = "loop"
    /\ qb.k < Len(qb.distance_range)
    /\ LET bond_distance == qb.distance_range[qb.k + 1]
       IN  \E solved \in BOOLEAN, energy \in QbEnergies :
             IF ~atom_str(qb.molecule, bond_distance).ok \/ ~solved
             THEN qb' = [qb EXCEPT !.pc = "raised"]
             ELSE qb' = [qb EXCEPT
                           !.k = @ + 1,
                           !.evaluated = Append(@, bond_distance),
                           !.energies = Append(@, energy),
                           !.min_energy = IF improves(energy, qb.min_energy)
                                          THEN Num(energy) ELSE @,
                           !.optimal_distance = IF improves(energy, qb.min_energy)
                                                THEN Some(bond_distance) ELSE @]
    /\ UNCHANGED <<scan, progress_queue, getters, stream, dissociation_result, response, vqe>>

\* lines 71-72: the loop is over, (optimal_distance, min_energy, optimal_result) is returned
qb_return ==
    /\ qb.pc = "loop"
    /\ qb.k = Len(qb.distance_range)
    /\ qb' = [qb EXCEPT !.pc = "returned"]
    /\ UNCHANGED <<scan, progress_queue, getters, stream, dissociation_result, response, vqe>>

Init ==
    /\ scan = [t \in Scans |-> IdleScan]
    /\ progress_queue = <<>>
    /\ getters = <<>>
    /\ stream = [s \in Subscribers |-> IdleStream]
    /\ dissociation_result = [set |-> FALSE, value |-> EmptyCurve]
    /\ response = NoResponse
    /\ vqe = IdleVqe
    /\ qb = IdleQb

\* the scans, the slot and its endpoint, with nobody reading the progress queue
NextScan ==
    \/ \E t \in Scans, molecule \in Molecules, basis \in Bases :
         dissociation_endpoint(t, molecule, basis)
    \/ \E t \in Scans : scan_point(t)
    \/ \E t \in Scans : scan_sentinel(t)
    \/ \E t \in Scans : scan_store(t)
    \/ get_dissociation_results

SpecScan == Init /\ [][NextScan]_vars

\* the scans and the subscribers of the progress queue, with nobody polling the slot
NextStream ==
    \/ \E t \in Scans, molecule \in StreamMolecules :
         dissociation_endpoint(t, molecule, "sto3g")
    \/ \E t \in Scans : scan_point(t)
    \/ \E t \in Scans : scan_sentinel(t)
    \/ \E t \in Scans : scan_store(t)
    \/ \E s \in Subscribers : stream_endpoint(s)
    \/ \E s \in Subscribers : streamer_get(s)
    \/ \E s \in Subscribers : streamer_sees_empty(s)
    \/ \E s \in Subscribers : streamer_wait(s)
    \/ \E s \in Subscribers : streamer_cancelled(s)

SpecStream == Init /\ [][NextStream]_vars

\* POST /api/run-vqe alone
NextVqe ==
    \E molecule \in Molecules, bondLength \in VqeBondLengths, basis \in Bases,
       backend \in BackendNames, env \in Envs :
        vqe_endpoint(molecule, bondLength, basis, backend, env)

SpecVqe == Init /\ [][NextVqe]_vars

\* qbit.py alone
NextMin ==
    \/ \E molecule \in QbMolecules, distance_range \in QbRanges :
         qb_call(molecule, distance_range)
    \/ qb_iteration
    \/ qb_return

SpecMin == Init /\ [][NextMin]_vars

\* the whole program: every endpoint and thread
Next ==
    \/ \E t \in Scans, molecule \in Molecules, basis \in Bases :
         dissociation_endpoint(t, molecule, basis)
    \/ \E t \in Scans : scan_point(t)
    \/ \E t \in Scans : scan_sentinel(t)
    \/ \E t \in Scans : scan_store(t)
    \/ \E s \in Subscribers : stream_endpoint(s)
    \/ \E s \in Subscribers : streamer_get(s)
    \/ \E s \in Subscribers : streamer_sees_empty(s)
    \/ \E s \in Subscribers : streamer_wait(s)
    \/ \E s \in Subscribers : streamer_cancelled(s)
    \/ get_dissociation_results
    \/ NextVqe
    \/ NextMin

Spec == Init /\ [][Next]_vars

\* ------------------------------------------------------------------ claims

\* the molecule identifiers run_vqe_calculation has a branch for
SupportedMolecules == {"H2", "LiH"}

\* with nobody reading progress_queue (SpecScan) it holds all that was ever put
PublishedBy(t) == SelectSeq(progress_queue, LAMBDA x : x.producer = t)

\* C1: the updates a scan has published so far are strictly increasing progress values,
\* the 15th is exactly 100, the sentinel None comes only as the 16th item, after all 15
\* updates, and a scan that got through its grid (H2 or other) has published exactly the
\* 15 updates and then the sentinel
C1_ProgressUpdates ==
    \A t \in Scans :
      LET p == PublishedBy(t)
      IN  /\ Len(p) <= total_points + 1
          /\ \A k \in 1..Len(p) : (p[k].kind = "None") <=> (k = total_points + 1)
          /\ \A k \in 1..Len(p) : p[k].kind = "progress" =>
                /\ k > 1 => FracLess(p[k - 1].value, p[k].value)
                /\ k = total_points => FracIs(p[k].value, 100)
                /\ k < total_points => FracLess(p[k].value, <<100, 1>>)
          /\ scan[t].pc \in {"store", "done"} => Len(p) = total_points + 1

C1_Witness ==
    \E t \in Scans :
        /\ scan[t].molecule = "H2"
        /\ scan[t].pc = "done"
        /\ Len(PublishedBy(t)) = 16
        /\ PublishedBy(t)[15].value = <<1500, 15>>
        /\ PublishedBy(t)[16].kind = "None"

\* C2: a point whose energy computation fails does not end the scan: no scan thread is
\* ever ended by the exception of a point
C2_ScanSurvivesFailingPoint ==
    \A t \in Scans : scan[t].pc # "aborted"

\* C3: a call with an unsupported molecule fails with the unsupported-molecule error and
\* get_backend is not among the steps it took
C3_ResolverNeverInvoked ==
    (vqe.pc = "done" /\ vqe.molecule \notin SupportedMolecules) =>
        /\ vqe.result.error = UnsupportedMolecule
        /\ \A k \in DOMAIN vqe.result.trace : vqe.result.trace[k] # "get_backend"

\* C3 as amended: a call with an unsupported molecule fails having taken one step only,
\* get_backend, and no problem-building step; the error is the unsupported-molecule
\* error when the backend resolved and the resolver's own error when it did not
C3_ResolverFirstThenUnsupported ==
    (vqe.pc = "done" /\ vqe.molecule \notin SupportedMolecules) =>
        /\ ~vqe.result.ok
        /\ vqe.result.trace = <<"get_backend">>
        /\ IF vqe.backend = "simulator" \/ (vqe.env.token /\ vqe.env.provider_ok)
           THEN vqe.result.error = UnsupportedMolecule
           ELSE vqe.result.error \in {CredentialMissing, ConnectionFailed}

C3_Witness ==
    /\ vqe.pc = "done"
    /\ vqe.molecule = "XeF2"
    /\ vqe.backend = "ibm_brisbane"
    /\ vqe.env.token /\ vqe.env.provider_ok
    /\ vqe.result.error = UnsupportedMolecule
    /\ vqe.result.trace = <<"get_backend">>

\* C4: a call naming a backend other than "simulator" with no token in the environment
\* fails with the token-not-set error and has taken no problem-building step, whatever
\* the molecule
C4_CredentialMissingFirst ==
    (vqe.pc = "done" /\ vqe.backend # "simulator" /\ ~vqe.env.token) =>
        /\ ~vqe.result.ok
        /\ vqe.result.error = CredentialMissing
        /\ \A k \in DOMAIN vqe.result.trace : vqe.result.trace[k] \notin BuildSteps

C4_Witness ==
    /\ vqe.pc = "done"
    /\ vqe.backend = "ibm_brisbane"
    /\ ~vqe.env.token
    /\ vqe.molecule = "H2"
    /\ vqe.env.driver_ok /\ vqe.env.solver_ok
    /\ vqe.result.error = CredentialMissing

\* C5: a subscriber that has received updates of a scan is not left suspended in get()
\* on the empty queue once that scan has put its sentinel and ended and no scan runs:
\* from there only a new scan could ever end its stream
C5_NoSubscriberLeftSuspended ==
    \A s \in Subscribers :
        ~ /\ stream[s].pc = "await"
          /\ stream[s].progress_data.kind = "progress"
          /\ scan[stream[s].progress_data.producer].pc = "done"
          /\ progress_queue = <<>>
          /\ \A t \in Scans : ~Running(t)

\* C6: when a subscriber has taken a scan's sentinel from the queue, that scan has
\* stored its result in the slot
C6_ResultStoredBeforeSentinelSeen ==
    \A s \in Subscribers :
        stream[s].progress_data.kind = "None" =>
            /\ scan[stream[s].progress_data.producer].pc = "done"
            /\ dissociation_result.set

\* C7: a subscriber that connects after a scan was aborted, a later scan having been
\* started, never receives an item the aborted scan had put
C7_NoLeftoverFromAbortedScan ==
    \A s \in Subscribers :
        (/\ stream[s].stale # {}
         /\ \E u \in Scans : scan[u].pc # "idle" /\ \A t \in stream[s].stale : t < u)
            => stream[s].progress_data.producer \notin stream[s].stale

\* C8: a call of the endpoint leaves the slot as it is, and a call made after a scan has
\* stored, with no store since the call before it, returns what that call returned
C8_RepeatedGetSameResult ==
    [][get_dissociation_results =>
          /\ dissociation_result' = dissociation_result
          /\ (response.served /\ Stored # {} /\ response.stores = Cardinality(Stored))
                => response'.body = response.body]_vars

C8_Witness ==
    /\ response.served
    /\ response.stores = 1
    /\ Cardinality(Stored) = 1
    /\ Len(response.body.curve_data) = total_points
    /\ dissociation_result.value = response.body

\* C9: as long as no scan has stored, every answer of the endpoint is the empty curve,
\* also one given while a scan runs with points computed, and the endpoint can answer
\* in every state
C9_EmptyBeforeFirstCompletion ==
    /\ ENABLED get_dissociation_results
    /\ (response.served /\ Stored = {}) => response.body = EmptyCurve

C9_Witness ==
    /\ response.served
    /\ response.partial
    /\ Stored = {}
    /\ response.body = EmptyCurve
    /\ \E t \in Scans : scan[t].pc = "loop" /\ Len(scan[t].curve_data) >= 2

RECURSIVE MinOf(_)
MinOf(q) == IF Len(q) = 1 THEN q[1]
            ELSE LET m == MinOf(Tail(q)) IN IF q[1] <= m THEN q[1] ELSE m
FirstIndexOf(q, x) == CHOOSE k \in 1..Len(q) : q[k] = x /\ \A j \in 1..(k - 1) : q[j] # x

\* C10: when the function returns for a non-empty range, it has evaluated the distances
\* of the range once each and in order, min_energy is the least of the energies found and
\* optimal_distance is the first distance of the range whose energy is that least one
C10_MinimumAndFirstDistance ==
    (qb.pc = "returned" /\ qb.distance_range # <<>>) =>
        /\ qb.evaluated = qb.distance_range
        /\ Len(qb.energies) = Len(qb.distance_range)
        /\ qb.min_energy = Num(MinOf(qb.energies))
        /\ qb.optimal_distance =
              Some(qb.distance_range[FirstIndexOf(qb.energies, MinOf(qb.energies))])

C10_Witness ==
    /\ qb.pc = "returned"
    /\ Len(qb.distance_range) = 3
    /\ qb.energies = <<-1100, -1137, -1137>>
    /\ qb.optimal_distance = Some(qb.distance_range[2])
    /\ qb.distance_range[2] # qb.distance_range[3]

====
